---- MODULE Spec2Model ----
(***************************************************************************)
(* A model of lerna's BootstrapCommand (src/commands/BootstrapCommand.js). *)
(*                                                                         *)
(* One action per callback of the command: the call of linkDependencies,   *)
(* and the completion of every asynchronous operation it issues (mkdirp,   *)
(* the npm installer, rimraf, glob, writeFile, symlink).  The callback     *)
(* bookkeeping of async.parallelLimit / series / each / parallel /         *)
(* waterfall (async 1.5) is part of the action that triggers it, since     *)
(* JavaScript runs a callback to completion.                               *)
(***************************************************************************)
EXTENDS Integers, Sequences, FiniteSets, TLC

\* ---------------------------------------------------------------- bounds
NumPkgs == 3
MaxConcurrency == 2

\* ------------------------------------------------------------- the domain
AllNames == <<"a", "b", "c", "d", "e">>
\* this.packages: the ordered workspace packages
packages == SubSeq(AllNames, 1, NumPkgs)
Pkgs == {packages[i] : i \in 1..NumPkgs}
\* a dependency name no workspace package carries
External == "x"
DepNames == Pkgs \cup {External}

Undefined == "undefined"
Versions == {"1.0.0", "2.0.0"}
Ranges == {"", "^1.0.0", "^2.0.0"}

\* pkg.main of every package, and the manifest's file name
main == "index.js"
ManifestFile == "package.json"
\* the files of a package's source tree, and one file only an earlier run left
SrcFiles == {"index.js", "package.json", "data.json"}
StaleFile == "old.js"
FilePaths == SrcFiles \cup {StaleFile}

\* callback arguments
Pending == <<"pending">>
Ok == <<"ok">>
ErrMkdirp(p) == <<"err", "mkdirp", p>>
ErrNpm(p) == <<"err", "npm", p>>
ErrFs(p, d) == <<"err", "fs", p, d>>

\* file contents
NoFile == <<"none">>
Garbage == <<"garbage">>
Stale == <<"stale">>
InstalledManifest(n, v) == <<"manifest", "installed", n, v>>
Symlink(d, f) == <<"symlink", d, f>>

Min(x, y) == IF x < y THEN x ELSE y

RECURSIVE Flatten(_)
\* lodash.flatten of a sequence of sequences
Flatten(ss) == IF ss = <<>> THEN <<>> ELSE Head(ss) \o Flatten(Tail(ss))

VARIABLES
  concurrency,      \* this.concurrency
  ignore,           \* the names the ignore pattern matches
  version,          \* pkg.version of every package
  allDependencies,  \* pkg.allDependencies: name -> range, or Undefined
  lerna,            \* the loaded manifest's lerna.files (has = it is declared)
  result,           \* what execute's callback received
  started,          \* parallelLimit: tasks handed to the iterator so far
  running,          \* parallelLimit: running
  errored,          \* parallelLimit: errored
  pc,               \* where each package's series stands
  pipelineResult,   \* what done received for each package
  ticks,            \* progressBar.tick(pkg.name) calls per package
  doneLog,          \* the calls of done in the order they happened: <<pkg, err>>
  batch,            \* externalPackages passed to NpmUtilities.installInDir
  installs,         \* calls of NpmUtilities.installInDir per package
  npm,              \* what the installer answered for each package
  pair,             \* the link of dependency d into package p
  dirExists,        \* pkg.nodeModulesLocation exists
  nodeModules,      \* pkg.nodeModulesLocation/<name>: the directory and its files
  before,           \* what nodeModules held when the run began
  srcManifest,      \* <dependency.location>/package.json on disk
  build,            \* which file runs: "src" (BootstrapCommand.js) or "lib" (compiled)
  invocation,       \* 1 in the first invocation of bootstrap, 2 in the one after it
  afterFirst,       \* what nodeModules held when the first invocation had finished
  warnings          \* logger.warning calls: <<pkg, dependency, expected, actual>>

cfgvars == <<concurrency, ignore, version, allDependencies, before, build, invocation, afterFirst>>
poolvars == <<result, started, running, errored, pc, pipelineResult, ticks, doneLog>>
vars == <<concurrency, ignore, version, allDependencies, lerna, result, started,
          running, errored, pc, pipelineResult, ticks, doneLog, batch, installs,
          npm, pair, dirExists, nodeModules, before, srcManifest, warnings,
          build, invocation, afterFirst>>

\* ------------------------------------------------------- pure functions

\* semver.satisfies on the versions and ranges of the domain; a version that
\* is no version string makes it throw
satisfies(actual, expected) ==
  /\ actual \in Versions
  /\ \/ expected = ""
     \/ expected = "^1.0.0" /\ actual = "1.0.0"
     \/ expected = "^2.0.0" /\ actual = "2.0.0"

isCompatableVersion(actual, expected) == satisfies(actual, expected)

hasMatchingDependency(pkg, dependency) ==
  LET expectedVersion == allDependencies[pkg][dependency]
      actualVersion == version[dependency]
  IN IF expectedVersion = Undefined \/ expectedVersion = ""
     THEN FALSE
     ELSE isCompatableVersion(actualVersion, expectedVersion)

\* the warning hasMatchingDependency logs when showWarning is set
mismatchWarnings(pkg) ==
  {<<pkg, d, allDependencies[pkg][d], version[d]>> : d \in
     {d \in Pkgs : /\ allDependencies[pkg][d] \notin {Undefined, ""}
                   /\ ~isCompatableVersion(version[d], allDependencies[pkg][d])}}

\* the file at pkg.nodeModulesLocation/dependency/f as a read sees it: a
\* symbolic link is followed to the sibling's source tree
readFile(pkg, dependency, f) ==
  LET c == nodeModules[pkg][dependency].files[f]
  IN IF c[1] = "symlink"
     THEN (IF c[3] = ManifestFile THEN srcManifest[c[2]] ELSE <<"source", c[2], c[3]>>)
     ELSE c

\* require(packageJson).version; Undefined when require throws or there is none
requireVersion(pkg, dependency) ==
  LET c == readFile(pkg, dependency, ManifestFile)
  IN IF c[1] = "manifest" THEN c[4] ELSE Undefined

hasDependencyInstalled(pkg, dependency) ==
  isCompatableVersion(requireVersion(pkg, dependency), allDependencies[pkg][dependency])

\* externalPackages without its first filter: siblings that will be linked stay
externalPackagesKeepsSiblings(pkg) ==
  {<<d, allDependencies[pkg][d]>> : d \in
     {d \in DepNames :
        /\ allDependencies[pkg][d] # Undefined
        /\ ~hasDependencyInstalled(pkg, d)}}

\* externalPackages of installExternalPackages, each <<name, range>> for name@range
externalPackages(pkg) ==
  {<<d, allDependencies[pkg][d]>> : d \in
     {d \in DepNames :
        /\ allDependencies[pkg][d] # Undefined
        /\ ~(d \in Pkgs /\ hasMatchingDependency(pkg, d))
        /\ ~hasDependencyInstalled(pkg, d)}}

\* PackageUtilities.filterPackages(this.packages, ignore, true)
filterPackages(pkgs, ign) == SelectSeq(pkgs, LAMBDA q : q \notin ign)

tasks == filterPackages(packages, ignore)

\* glob(file, {cwd: src}): the patterns of the domain are plain file names
glob(pattern) == IF pattern \in SrcFiles THEN <<pattern>> ELSE <<>>

extname(file) == IF file = "index.js" THEN ".js" ELSE ".json"

\* packageJsonFileContents: the fields after the tag are the ones JSON.stringify
\* receives, name and version, and in the compiled file main as well
packageJsonFileContents(name, pkgVersion) ==
  IF build = "lib" THEN <<"manifest", "generated", name, pkgVersion, main>>
  ELSE <<"manifest", "generated", name, pkgVersion>>

\* fileContent of a proxy module
fileContent(prefix, src, file) == <<"proxy", prefix, src, file>>

prefix == ""

\* execute's callback arguments from linkDependencies' err
execute(err) == IF err = Ok THEN <<"ok", "true">> ELSE err


\* ------------------------------------------------- directories and links

AbsentEntry == [exists |-> FALSE, files |-> [f \in FilePaths |-> NoFile]]
EmptyEntry == [exists |-> TRUE, files |-> [f \in FilePaths |-> NoFile]]
\* what the installer leaves at node_modules/<n>
InstalledEntry(n, v) ==
  [exists |-> TRUE,
   files |-> [f \in FilePaths |-> IF f = ManifestFile THEN InstalledManifest(n, v)
                                  ELSE IF f = main THEN <<"installed", n, f>>
                                  ELSE NoFile]]
\* what a link of an earlier run of BootstrapCommand.js left there, the sibling
\* then at version v
LinkedEntry(n, v) ==
  [exists |-> TRUE,
   files |-> [f \in FilePaths |-> IF f = ManifestFile THEN <<"manifest", "generated", n, v>>
                                  ELSE IF f = main THEN fileContent(prefix, n, f)
                                  ELSE Stale]]
\* an entry whose manifest cannot be parsed
BrokenEntry ==
  [exists |-> TRUE,
   files |-> [f \in FilePaths |-> IF f = ManifestFile THEN Garbage ELSE NoFile]]

SourceManifest(d) == <<"manifest", "source", d, version[d]>>

\* the link of one dependency into one package: where createLinkedDependency
\* stands, the patterns it globbed, the matched files and their series, the
\* manifest's write, and how often createLinkedDependency was called
NoPair == [st |-> "none", glob |-> "none", files |-> <<>>, task |-> <<>>,
           manifest |-> "none", contents |-> NoFile, patterns |-> <<>>, calls |-> 0]

\* filesCb that passes on no error of a matched file's series
filesCbIgnoresFileErrors(pr) ==
  IF pr.glob = "err" THEN "err"
  ELSE IF pr.glob = "ok" /\ \A i \in 1..Len(pr.task) : pr.task[i] = "ok" THEN "ok"
  ELSE "pending"

\* the callback of the async.each over the matched files, inside the waterfall
filesCb(pr) ==
  IF pr.glob = "err" \/ \E i \in 1..Len(pr.task) : pr.task[i] = "err" THEN "err"
  ELSE IF pr.glob = "ok" /\ \A i \in 1..Len(pr.task) : pr.task[i] = "ok" THEN "ok"
  ELSE "pending"

\* what createLinkedDependency's callback has received: async.parallel calls
\* back on the first error, or when both branches are through
pairCb(pr) ==
  CASE pr.st = "skip" -> "ok"
    [] pr.st = "failed" -> "err"
    [] pr.st = "linking" ->
         IF filesCb(pr) = "err" \/ pr.manifest = "err" THEN "err"
         ELSE IF filesCb(pr) = "ok" /\ pr.manifest = "ok" THEN "ok"
         ELSE "pending"
    [] OTHER -> "pending"

\* the npm registry's answer to name@range: the newest version in the range
installedVersion(range) == IF range = "^1.0.0" THEN "1.0.0" ELSE "2.0.0"

\* ------------------------------------------------ async.parallelLimit


\* replenish without the limit: every remaining task is started
replenishUnbounded(run, err) ==
  IF err THEN 0 ELSE Len(tasks) - started

\* replenish that goes on after an error
replenishAfterError(run, err) ==
  Min(concurrency - run, Len(tasks) - started)

\* how many tasks replenish hands to the iterator
replenish(run, err) ==
  IF err THEN 0 ELSE Min(concurrency - run, Len(tasks) - started)

\* the pipelines replenish starts: each issues its mkdirp
launched(k) == {tasks[i] : i \in (started + 1)..(started + k)}


\* Finish whose final callback is not guarded by once: the last error wins
FinishLastErrorWins(p, err) ==
  LET run == running - 1
      k == replenish(run, errored \/ err # Ok)
  IN /\ ticks' = [ticks EXCEPT ![p] = @ + 1]
     /\ pipelineResult' = [pipelineResult EXCEPT ![p] = err]
     /\ doneLog' = Append(doneLog, <<p, err>>)
     /\ running' = run + k
     /\ started' = started + k
     /\ errored' = (errored \/ err # Ok)
     /\ pc' = [q \in Pkgs |-> IF q = p THEN "done"
                              ELSE IF q \in launched(k) THEN "mkdirp" ELSE pc[q]]
     /\ result' = IF err # Ok THEN execute(err)
                  ELSE IF result # Pending THEN result
                  ELSE IF started + k = Len(tasks) /\ run + k = 0 THEN execute(Ok)
                  ELSE Pending

\* Finish that ticks the progress bar only for a pipeline that succeeded
FinishTicksOnSuccess(p, err) ==
  LET run == running - 1
      k == replenish(run, errored \/ err # Ok)
  IN /\ ticks' = [ticks EXCEPT ![p] = IF err = Ok THEN @ + 1 ELSE @]
     /\ pipelineResult' = [pipelineResult EXCEPT ![p] = err]
     /\ doneLog' = Append(doneLog, <<p, err>>)
     /\ running' = run + k
     /\ started' = started + k
     /\ errored' = (errored \/ err # Ok)
     /\ pc' = [q \in Pkgs |-> IF q = p THEN "done"
                              ELSE IF q \in launched(k) THEN "mkdirp" ELSE pc[q]]
     /\ result' = IF result # Pending THEN result
                  ELSE IF err # Ok THEN execute(err)
                  ELSE IF started + k = Len(tasks) /\ run + k = 0 THEN execute(Ok)
                  ELSE Pending

\* The final callback of a package's async.series: progressBar.tick, then
\* done(err), which is parallelLimit's only_once callback of the task.
Finish(p, err) ==
  LET run == running - 1
      k == replenish(run, errored \/ err # Ok)
  IN /\ ticks' = [ticks EXCEPT ![p] = @ + 1]
     /\ pipelineResult' = [pipelineResult EXCEPT ![p] = err]
     /\ doneLog' = Append(doneLog, <<p, err>>)
     /\ running' = run + k
     /\ started' = started + k
     /\ errored' = (errored \/ err # Ok)
     /\ pc' = [q \in Pkgs |-> IF q = p THEN "done"
                              ELSE IF q \in launched(k) THEN "mkdirp" ELSE pc[q]]
     /\ result' = IF result # Pending THEN result
                  ELSE IF err # Ok THEN execute(err)
                  ELSE IF started + k = Len(tasks) /\ run + k = 0 THEN execute(Ok)
                  ELSE Pending

\* the series of p goes on
Goto(p, where) ==
  /\ pc' = [pc EXCEPT ![p] = where]
  /\ UNCHANGED <<result, started, running, errored, pipelineResult, ticks, doneLog>>

\* ---------------------------------------------------------------- actions

\* execute -> linkDependencies: parallelLimit starts the first pipelines
LinkDependencies ==
  /\ started = 0 /\ running = 0 /\ result = Pending /\ \A p \in Pkgs : pc[p] = "idle"
  /\ LET k == replenish(0, FALSE)
     IN /\ started' = k
        /\ running' = k
        /\ pc' = [q \in Pkgs |-> IF q \in launched(k) THEN "mkdirp" ELSE pc[q]]
        /\ result' = IF Len(tasks) = 0 THEN execute(Ok) ELSE result
  /\ UNCHANGED <<cfgvars, lerna, errored, pipelineResult, ticks, doneLog, batch,
                 installs, npm, pair, dirExists, nodeModules, srcManifest, warnings>>

\* linkDependenciesForPackage: every package of this.packages is a candidate
StartLinks(p) ==
  LET eligible == {d \in Pkgs : hasMatchingDependency(p, d)}
  IN /\ warnings' = warnings \cup mismatchWarnings(p)
     /\ pair' = [pair EXCEPT ![p] = [d \in Pkgs |->
                   IF d \in eligible
                   THEN [NoPair EXCEPT !.st = "rimraf", !.calls = pair[p][d].calls + 1]
                   ELSE [NoPair EXCEPT !.st = "skip", !.calls = pair[p][d].calls]]]
     /\ IF eligible = {} THEN Finish(p, Ok) ELSE Goto(p, "link")


\* MkdirpNodeModules whose series goes on to the install step although mkdirp
\* failed
MkdirpNodeModulesIgnoresError(p) ==
  /\ pc[p] = "mkdirp"
  /\ \E ok \in BOOLEAN :
       /\ dirExists' = [dirExists EXCEPT ![p] = @ \/ ok]
       /\ IF externalPackages(p) # {}
          THEN /\ batch' = [batch EXCEPT ![p] = externalPackages(p)]
               /\ installs' = [installs EXCEPT ![p] = @ + 1]
               /\ npm' = [npm EXCEPT ![p] = "running"]
               /\ Goto(p, "install")
          ELSE /\ Goto(p, "immediate")
               /\ UNCHANGED <<batch, installs, npm>>
  /\ UNCHANGED <<cfgvars, lerna, pair, nodeModules, srcManifest, warnings>>

\* mkdirp(pkg.nodeModulesLocation) calls back; on success installExternalPackages
\* runs: the installer is called, or callback() at once (the series then goes on
\* from setImmediate)
MkdirpNodeModules(p) ==
  /\ pc[p] = "mkdirp"
  /\ \/ /\ dirExists' = [dirExists EXCEPT ![p] = TRUE]
        /\ IF externalPackages(p) # {}
           THEN /\ batch' = [batch EXCEPT ![p] = externalPackages(p)]
                /\ installs' = [installs EXCEPT ![p] = @ + 1]
                /\ npm' = [npm EXCEPT ![p] = "running"]
                /\ Goto(p, "install")
           ELSE /\ Goto(p, "immediate")
                /\ UNCHANGED <<batch, installs, npm>>
     \/ /\ Finish(p, ErrMkdirp(p))
        /\ UNCHANGED <<dirExists, batch, installs, npm>>
  /\ UNCHANGED <<cfgvars, lerna, pair, nodeModules, srcManifest, warnings>>


\* InstallInDir whose series goes on to link although the installer failed
InstallInDirSwallowsError(p) ==
  /\ pc[p] = "install"
  /\ \/ /\ nodeModules' = [nodeModules EXCEPT ![p] = [n \in DepNames |->
               IF \E b \in batch[p] : b[1] = n
               THEN InstalledEntry(n, installedVersion(allDependencies[p][n]))
               ELSE @[n]]]
        /\ npm' = [npm EXCEPT ![p] = "ok"]
        /\ StartLinks(p)
     \/ /\ npm' = [npm EXCEPT ![p] = "failed"]
        /\ StartLinks(p)
        /\ UNCHANGED nodeModules
  /\ UNCHANGED <<cfgvars, lerna, batch, installs, dirExists, srcManifest>>

\* NpmUtilities.installInDir calls back
InstallInDir(p) ==
  /\ pc[p] = "install"
  /\ \/ /\ nodeModules' = [nodeModules EXCEPT ![p] = [n \in DepNames |->
               IF \E b \in batch[p] : b[1] = n
               THEN InstalledEntry(n, installedVersion(allDependencies[p][n]))
               ELSE @[n]]]
        /\ npm' = [npm EXCEPT ![p] = "ok"]
        /\ StartLinks(p)
     \/ /\ npm' = [npm EXCEPT ![p] = "failed"]
        /\ Finish(p, ErrNpm(p))
        /\ UNCHANGED <<nodeModules, pair, warnings>>
  /\ UNCHANGED <<cfgvars, lerna, batch, installs, dirExists, srcManifest>>

\* the series goes on after an install step that called back synchronously
Immediate(p) ==
  /\ pc[p] = "immediate"
  /\ StartLinks(p)
  /\ UNCHANGED <<cfgvars, lerna, batch, installs, npm, dirExists, nodeModules, srcManifest>>

\* what a step of the link of d into p does to the series of p
PairStep(p, d, new) ==
  /\ pair' = [pair EXCEPT ![p][d] = new]
  /\ IF pc[p] = "link" /\ pairCb(new) = "err"
     THEN Finish(p, ErrFs(p, d))
     ELSE IF /\ pc[p] = "link"
             /\ \A e \in Pkgs : pairCb(IF e = d THEN new ELSE pair[p][e]) = "ok"
          THEN Finish(p, Ok)
          ELSE UNCHANGED poolvars

\* Rimraf that reports success and leaves the target as it was
RimrafLeavesTarget(p, d) ==
  /\ pair[p][d].st = "rimraf"
  /\ \/ /\ UNCHANGED nodeModules
        /\ PairStep(p, d, [pair[p][d] EXCEPT !.st = "mkdirp"])
     \/ /\ PairStep(p, d, [pair[p][d] EXCEPT !.st = "failed"])
        /\ UNCHANGED nodeModules
  /\ UNCHANGED <<cfgvars, lerna, batch, installs, npm, dirExists, srcManifest, warnings>>

\* createLinkedDependency: rimraf(dest) calls back
Rimraf(p, d) ==
  /\ pair[p][d].st = "rimraf"
  /\ \/ /\ nodeModules' = [nodeModules EXCEPT ![p][d] = AbsentEntry]
        /\ PairStep(p, d, [pair[p][d] EXCEPT !.st = "mkdirp"])
     \/ /\ PairStep(p, d, [pair[p][d] EXCEPT !.st = "failed"])
        /\ UNCHANGED nodeModules
  /\ UNCHANGED <<cfgvars, lerna, batch, installs, npm, dirExists, srcManifest, warnings>>

\* the patterns createLinkedDependencyFiles globs for dependency d
linkFiles(d) == Append(IF lerna[d].has THEN lerna[d].files ELSE <<>>, main)

\* require(srcPackageJsonLocation) returns the sibling's manifest when the
\* module cache or the file on disk yields one, and throws otherwise
requireThrows(d) == srcManifest[d][1] # "manifest"

\* createLinkedDependency: mkdirp(dest) calls back; on success
\* createLinkedDependencyFiles starts the globs and the manifest's writeFile,
\* unless its require throws: nothing catches that, no callback is called
MkdirpDest(p, d) ==
  /\ pair[p][d].st = "mkdirp"
  /\ \/ /\ ~requireThrows(d)
        /\ nodeModules' = [nodeModules EXCEPT ![p][d].exists = TRUE]
        /\ lerna' = [lerna EXCEPT ![d].files = IF lerna[d].has THEN linkFiles(d) ELSE @]
        /\ PairStep(p, d, [st |-> "linking", glob |-> "pending",
                           files |-> Flatten([i \in 1..Len(linkFiles(d)) |-> glob(linkFiles(d)[i])]),
                           task |-> <<>>, manifest |-> "pending",
                           contents |-> packageJsonFileContents(d, version[d]),
                           patterns |-> linkFiles(d), calls |-> pair[p][d].calls])
     \/ /\ requireThrows(d)
        /\ nodeModules' = [nodeModules EXCEPT ![p][d].exists = TRUE]
        /\ PairStep(p, d, [pair[p][d] EXCEPT !.st = "fault"])
        /\ UNCHANGED lerna
     \/ /\ PairStep(p, d, [pair[p][d] EXCEPT !.st = "failed"])
        /\ UNCHANGED <<nodeModules, lerna>>
  /\ UNCHANGED <<cfgvars, batch, installs, npm, dirExists, srcManifest, warnings>>

\* the globs call back: one series per matched file starts with mkdirp(dir)
Glob(p, d) ==
  /\ pair[p][d].st = "linking" /\ pair[p][d].glob = "pending"
  /\ \/ PairStep(p, d, [pair[p][d] EXCEPT !.glob = "ok",
                          !.task = [i \in 1..Len(pair[p][d].files) |-> "mkdirp"]])
     \/ PairStep(p, d, [pair[p][d] EXCEPT !.glob = "err"])
  /\ UNCHANGED <<cfgvars, lerna, batch, installs, npm, dirExists, nodeModules, srcManifest, warnings>>

\* mkdirp(dir) of the i-th matched file calls back: the write or the symlink starts
MkdirpFileDir(p, d, i) ==
  /\ pair[p][d].st = "linking" /\ i \in 1..Len(pair[p][d].task)
  /\ pair[p][d].task[i] = "mkdirp"
  /\ \/ PairStep(p, d, [pair[p][d] EXCEPT !.task[i] = "write"])
     \/ PairStep(p, d, [pair[p][d] EXCEPT !.task[i] = "err"])
  /\ UNCHANGED <<cfgvars, lerna, batch, installs, npm, dirExists, nodeModules, srcManifest, warnings>>

\* writeFile of the proxy module of a .js file calls back
WriteProxy(p, d, i) ==
  /\ pair[p][d].st = "linking" /\ i \in 1..Len(pair[p][d].task)
  /\ pair[p][d].task[i] = "write" /\ extname(pair[p][d].files[i]) = ".js"
  /\ \/ /\ nodeModules' = [nodeModules EXCEPT ![p][d].files[pair[p][d].files[i]] =
                              fileContent(prefix, d, pair[p][d].files[i])]
        /\ PairStep(p, d, [pair[p][d] EXCEPT !.task[i] = "ok"])
     \/ /\ PairStep(p, d, [pair[p][d] EXCEPT !.task[i] = "err"])
        /\ UNCHANGED nodeModules
  /\ UNCHANGED <<cfgvars, lerna, batch, installs, npm, dirExists, srcManifest, warnings>>

\* symlink of any other file settles: EEXIST counts as success
SymlinkFile(p, d, i) ==
  /\ pair[p][d].st = "linking" /\ i \in 1..Len(pair[p][d].task)
  /\ pair[p][d].task[i] = "write" /\ extname(pair[p][d].files[i]) # ".js"
  /\ \/ /\ nodeModules' = [nodeModules EXCEPT ![p][d].files[pair[p][d].files[i]] =
                              IF @ = NoFile THEN Symlink(d, pair[p][d].files[i]) ELSE @]
        /\ PairStep(p, d, [pair[p][d] EXCEPT !.task[i] = "ok"])
     \/ /\ PairStep(p, d, [pair[p][d] EXCEPT !.task[i] = "err"])
        /\ UNCHANGED nodeModules
  /\ UNCHANGED <<cfgvars, lerna, batch, installs, npm, dirExists, srcManifest, warnings>>

\* writeFile(destPackageJsonLocation) calls back: a write to a path that holds
\* a symbolic link goes to the link's target
WriteManifest(p, d) ==
  /\ pair[p][d].st = "linking" /\ pair[p][d].manifest = "pending"
  /\ \/ /\ IF nodeModules[p][d].files[ManifestFile][1] = "symlink"
           THEN /\ srcManifest' = [srcManifest EXCEPT
                                     ![nodeModules[p][d].files[ManifestFile][2]] = pair[p][d].contents]
                /\ UNCHANGED nodeModules
           ELSE /\ nodeModules' = [nodeModules EXCEPT ![p][d].files[ManifestFile] = pair[p][d].contents]
                /\ UNCHANGED srcManifest
        /\ PairStep(p, d, [pair[p][d] EXCEPT !.manifest = "ok"])
     \/ /\ PairStep(p, d, [pair[p][d] EXCEPT !.manifest = "err"])
        /\ UNCHANGED <<nodeModules, srcManifest>>
  /\ UNCHANGED <<cfgvars, lerna, batch, installs, npm, dirExists, warnings>>

\* no exception has escaped a callback: an uncaught exception ends the process,
\* and no callback runs after it
Alive == \A p \in Pkgs, d \in Pkgs : pair[p][d].st # "fault"

Next ==
  \/ LinkDependencies
  \/ \E p \in Pkgs : Alive /\ MkdirpNodeModules(p)
  \/ \E p \in Pkgs : Alive /\ InstallInDir(p)
  \/ \E p \in Pkgs : Alive /\ Immediate(p)
  \/ \E p \in Pkgs, d \in Pkgs : Alive /\ Rimraf(p, d)
  \/ \E p \in Pkgs, d \in Pkgs : Alive /\ MkdirpDest(p, d)
  \/ \E p \in Pkgs, d \in Pkgs : Alive /\ Glob(p, d)
  \/ \E p \in Pkgs, d \in Pkgs : \E i \in 1..Len(pair[p][d].task) : Alive /\ MkdirpFileDir(p, d, i)
  \/ \E p \in Pkgs, d \in Pkgs : \E i \in 1..Len(pair[p][d].task) : Alive /\ WriteProxy(p, d, i)
  \/ \E p \in Pkgs, d \in Pkgs : \E i \in 1..Len(pair[p][d].task) : Alive /\ SymlinkFile(p, d, i)
  \/ \E p \in Pkgs, d \in Pkgs : Alive /\ WriteManifest(p, d)


\* ------------------------------------------------------------ initial states

\* the state before execute is called: a workspace, the dependency directories,
\* the siblings' manifests on disk and the file that runs
InitDisk(conc, ign, vers, deps, lfiles, nm, src, bld) ==
  /\ concurrency = conc
  /\ ignore = ign
  /\ version = vers
  /\ allDependencies = deps
  /\ lerna = lfiles
  /\ nodeModules = nm
  /\ before = nm
  /\ dirExists = [p \in Pkgs |-> \E n \in DepNames : nm[p][n].exists]
  /\ srcManifest = src
  /\ build = bld
  /\ invocation = 1
  /\ afterFirst = nm
  /\ result = Pending
  /\ started = 0
  /\ running = 0
  /\ errored = FALSE
  /\ pc = [p \in Pkgs |-> "idle"]
  /\ pipelineResult = [p \in Pkgs |-> Pending]
  /\ ticks = [p \in Pkgs |-> 0]
  /\ doneLog = <<>>
  /\ npm = [p \in Pkgs |-> "none"]
  /\ batch = [p \in Pkgs |-> {}]
  /\ installs = [p \in Pkgs |-> 0]
  /\ pair = [p \in Pkgs |-> [d \in Pkgs |-> NoPair]]
  /\ warnings = {}

\* the same with every manifest readable, for BootstrapCommand.js
InitWith(conc, ign, vers, deps, lfiles, nm) ==
  InitDisk(conc, ign, vers, deps, lfiles, nm,
           [d \in Pkgs |-> <<"manifest", "source", d, vers[d]>>], "src")

NoDeps == [n \in DepNames |-> Undefined]
EmptyDisk == [p \in Pkgs |-> [n \in DepNames |-> AbsentEntry]]
NoLerna == [has |-> FALSE, files |-> <<>>]

\* where a package stands in this.packages
idx(p) == CHOOSE i \in 1..NumPkgs : packages[i] = p

\* versions alternate along this.packages: 1.0.0, 2.0.0, 1.0.0, ...
AlternatingVersions == [p \in Pkgs |-> IF idx(p) % 2 = 0 THEN "2.0.0" ELSE "1.0.0"]
Caret(v) == IF v = "1.0.0" THEN "^1.0.0" ELSE "^2.0.0"
OtherCaret(v) == IF v = "1.0.0" THEN "^2.0.0" ELSE "^1.0.0"

\* a chain: every package declares the next one at a range it satisfies; the
\* first declares an external dependency as well, the last only that
ChainWorkspace ==
  [p \in Pkgs |-> [n \in DepNames |->
     IF n \in Pkgs /\ idx(p) < NumPkgs /\ idx(n) = idx(p) + 1 THEN Caret(AlternatingVersions[n])
     ELSE IF n = External /\ idx(p) \in {1, NumPkgs} THEN "^1.0.0"
     ELSE Undefined]]

\* a fan: the first package declares every other one at a range it satisfies,
\* the last declares the first at a range it does not satisfy, the ones in
\* between declare an external dependency
FanWorkspace ==
  [p \in Pkgs |-> [n \in DepNames |->
     IF idx(p) = 1 /\ n \in Pkgs /\ n # p THEN Caret(AlternatingVersions[n])
     ELSE IF idx(p) = NumPkgs /\ n \in Pkgs /\ idx(n) = 1 THEN OtherCaret(AlternatingVersions[n])
     ELSE IF n = External /\ idx(p) \notin {1, NumPkgs} THEN "^1.0.0"
     ELSE Undefined]]

\* the second package declares lerna.files, naming its manifest
SecondHasFiles ==
  [p \in Pkgs |-> IF idx(p) = 2 THEN [has |-> TRUE, files |-> <<"package.json">>] ELSE NoLerna]

\* a fresh checkout; any concurrency; the ignore pattern matches no package or one
Init ==
  \E conc \in 1..MaxConcurrency, ign \in {{}} \cup {{q} : q \in Pkgs},
     deps \in {ChainWorkspace, FanWorkspace} :
    InitWith(conc, ign, AlternatingVersions, deps, SecondHasFiles, EmptyDisk)

Spec == Init /\ [][Next]_vars

\* A checkout on which bootstrap may have run before: the first package declares
\* the second at any range (the empty range among them) or not at all, and its
\* dependency directory is empty or holds the link an earlier run made when the
\* second package had either version.  Only the first package is bootstrapped.
RerunInit ==
  \E conc \in 1..MaxConcurrency, r \in Ranges \cup {Undefined},
     rx \in {Undefined, "^1.0.0"},
     old \in {AbsentEntry} \cup {LinkedEntry(packages[2], v) : v \in Versions} :
    InitWith(conc, Pkgs \ {packages[1]}, AlternatingVersions,
             [p \in Pkgs |-> IF idx(p) = 1
                             THEN [NoDeps EXCEPT ![packages[2]] = r, ![External] = rx]
                             ELSE NoDeps],
             SecondHasFiles,
             [EmptyDisk EXCEPT ![packages[1]][packages[2]] = old])

RerunSpec == RerunInit /\ [][Next]_vars

\* a fresh checkout of which every package is bootstrapped
FairInit ==
  \E conc \in 1..MaxConcurrency, deps \in {ChainWorkspace, FanWorkspace} :
    InitWith(conc, {}, AlternatingVersions, deps, SecondHasFiles, EmptyDisk)

\* every operation that was issued calls back
FairSpec == FairInit /\ [][Next]_vars /\ WF_vars(Next)

\* A workspace in which the first and the last package both declare the second
\* one, whose lerna.files names its manifest; the last package declares an
\* external dependency as well.
SharedWorkspace ==
  [p \in Pkgs |-> [n \in DepNames |->
     IF idx(p) \in {1, NumPkgs} /\ n = packages[2] THEN Caret(AlternatingVersions[n])
     ELSE IF idx(p) = NumPkgs /\ n = External THEN "^1.0.0"
     ELSE Undefined]]

SharedInit ==
  \E conc \in 1..MaxConcurrency :
    InitWith(conc, {}, AlternatingVersions, SharedWorkspace, SecondHasFiles, EmptyDisk)

SharedSpec == SharedInit /\ [][Next]_vars

\* Only the first package is bootstrapped.  It declares the second one at a
\* range its version satisfies; it declares itself, at a range its own version
\* satisfies or not, or does not; it declares an external dependency or not, of
\* which a copy with an unreadable manifest may lie in its dependency directory;
\* the second package's own manifest may be unreadable; either file may be the
\* one that runs.
EdgeInit ==
  \E conc \in 1..MaxConcurrency,
     self \in {Undefined, Caret(AlternatingVersions[packages[1]]),
                OtherCaret(AlternatingVersions[packages[1]])},
     rx \in {Undefined, "^1.0.0"},
     copy \in {AbsentEntry, BrokenEntry},
     src \in {<<"manifest", "source", packages[2], AlternatingVersions[packages[2]]>>, Garbage},
     bld \in {"src", "lib"} :
    InitDisk(conc, Pkgs \ {packages[1]}, AlternatingVersions,
             [p \in Pkgs |-> IF idx(p) = 1
                             THEN [NoDeps EXCEPT ![packages[2]] = Caret(AlternatingVersions[packages[2]]),
                                                 ![p] = self, ![External] = rx]
                             ELSE NoDeps],
             SecondHasFiles,
             [EmptyDisk EXCEPT ![packages[1]][External] = copy],
             [d \in Pkgs |-> IF d = packages[2] THEN src
                              ELSE <<"manifest", "source", d, AlternatingVersions[d]>>],
             bld)

EdgeSpec == EdgeInit /\ [][Next]_vars

\* Only the first package is bootstrapped; it declares the second one at a
\* range its version satisfies, and an external dependency or not.  The second
\* package declares no lerna.files, or patterns that match a data file once or
\* twice, or its manifest and a data file.
FilesInit ==
  \E conc \in 1..MaxConcurrency, rx \in {Undefined, "^1.0.0"},
     lf \in {NoLerna} \cup {[has |-> TRUE, files |-> fs] :
                fs \in {<<"data.json">>, <<"data.json", "data.json">>,
                         <<"package.json", "data.json">>}} :
    InitWith(conc, Pkgs \ {packages[1]}, AlternatingVersions,
             [p \in Pkgs |-> IF idx(p) = 1
                             THEN [NoDeps EXCEPT ![packages[2]] = Caret(AlternatingVersions[packages[2]]),
                                                 ![External] = rx]
                             ELSE NoDeps],
             [p \in Pkgs |-> IF idx(p) = 2 THEN lf ELSE NoLerna],
             EmptyDisk)

FilesSpec == FilesInit /\ [][Next]_vars

\* bootstrap is invoked again after an invocation that succeeded and left every
\* package's own manifest as it was: a new process loads the packages afresh and
\* finds the dependency directories as the first invocation left them
Rerun ==
  /\ invocation = 1
  /\ result = execute(Ok)
  /\ \A d \in Pkgs : srcManifest[d] = SourceManifest(d)
  /\ invocation' = 2
  /\ afterFirst' = nodeModules
  /\ before' = nodeModules
  /\ lerna' = SecondHasFiles
  /\ result' = Pending
  /\ started' = 0
  /\ running' = 0
  /\ errored' = FALSE
  /\ pc' = [p \in Pkgs |-> "idle"]
  /\ pipelineResult' = [p \in Pkgs |-> Pending]
  /\ ticks' = [p \in Pkgs |-> 0]
  /\ doneLog' = <<>>
  /\ npm' = [p \in Pkgs |-> "none"]
  /\ batch' = [p \in Pkgs |-> {}]
  /\ installs' = [p \in Pkgs |-> 0]
  /\ pair' = [p \in Pkgs |-> [d \in Pkgs |-> NoPair]]
  /\ warnings' = {}
  /\ UNCHANGED <<concurrency, ignore, version, allDependencies, build, dirExists,
                 nodeModules, srcManifest>>

TwiceNext ==
  \/ Next
  \/ Rerun

\* two invocations in succession on a fresh checkout, every package bootstrapped
TwiceInit ==
  \E conc \in 1..MaxConcurrency, deps \in {ChainWorkspace, FanWorkspace} :
    InitWith(conc, {}, AlternatingVersions, deps, SecondHasFiles, EmptyDisk)

TwiceSpec == TwiceInit /\ [][TwiceNext]_vars

\* ------------------------------------------------------------------ claims

\* c is a manifest the installer wrote ("installed") or a link wrote ("generated")
IsManifest(c, kind) == c[1] = "manifest" /\ c[2] = kind

\* the pipelines that were started and have not called done
InFlight == {p \in Pkgs : pc[p] \notin {"idle", "done"}}
NotStarted == {p \in Pkgs : pc[p] = "idle" /\ \E i \in 1..Len(tasks) : tasks[i] = p}
Failed(p) == pipelineResult[p] \notin {Pending, Ok}

\* C1: at every moment the number of pipelines that were started and have not
\* yet called done is at most the concurrency bound (and is what parallelLimit
\* counts as running).
C1_BoundedConcurrency ==
  /\ Cardinality(InFlight) <= concurrency
  /\ Cardinality(InFlight) = running

\* C1 witness: the bound is reached while a package still waits for a slot
C1_Witness ==
  /\ concurrency = MaxConcurrency
  /\ Cardinality(InFlight) = concurrency
  /\ NotStarted # {}

\* C2: once a pipeline has finished with an error (in this step or before), no
\* pipeline that was not yet started is started.
C2_NoLaunchAfterFailure ==
  [][(\E q \in Pkgs : pipelineResult'[q] \notin {Pending, Ok})
       => \A p \in Pkgs : pc[p] = "idle" => pc'[p] = "idle"]_vars

\* C2 witness: a pipeline failed, another one that was in flight then finished
\* later with success, nothing runs any more and a package was never started
C2_Witness ==
  /\ Len(doneLog) >= 2
  /\ doneLog[1][2] # Ok
  /\ doneLog[Len(doneLog)][2] = Ok
  /\ running = 0
  /\ NotStarted # {}

\* the index in doneLog of the first pipeline that failed, 0 if none did
FirstFailure ==
  IF \E i \in 1..Len(doneLog) : doneLog[i][2] # Ok
  THEN CHOOSE i \in 1..Len(doneLog) :
         /\ doneLog[i][2] # Ok
         /\ \A j \in 1..(i - 1) : doneLog[j][2] = Ok
  ELSE 0

\* the result is the error of the pipeline that failed first, unchanged
FirstErrorIsResult ==
  /\ FirstFailure # 0 => result = doneLog[FirstFailure][2]
  /\ result \notin {Pending, execute(Ok)} => FirstFailure # 0

\* C3 as stated: the result is success only if the pipeline of every workspace
\* package ran and succeeded; otherwise it is the error of the pipeline that
\* failed first in time.
C3_Original ==
  /\ result = execute(Ok) =>
       \A p \in Pkgs : pc[p] = "done" /\ pipelineResult[p] = Ok
  /\ FirstErrorIsResult

\* C3 as amended: the result is success only if the pipeline of every package
\* the ignore filter keeps ran and succeeded; otherwise it is the error of the
\* pipeline that failed first in time, unchanged.
C3_ResultIsFirstFailure ==
  /\ result = execute(Ok) =>
       \A p \in Pkgs \ ignore : pc[p] = "done" /\ pipelineResult[p] = Ok
  /\ FirstErrorIsResult

\* C3 witness: two pipelines failed with different errors, one after the other
C3_Witness ==
  /\ Len(doneLog) >= 2
  /\ \E i, j \in 1..Len(doneLog) :
       /\ i < j /\ doneLog[i][2] # Ok /\ doneLog[j][2] # Ok
       /\ doneLog[i][2] # doneLog[j][2]
       /\ result = doneLog[i][2]

LinkEvaluated(p) == \E d \in Pkgs : pair[p][d].st # "none"
LinkStarted(p) == \E d \in Pkgs : pair[p][d].st \notin {"none", "skip"}

\* C5: in one pipeline the dependency directory is created before the installer
\* is called, and no link operation starts before the install step succeeded.
C5_StepsInOrder ==
  \A p \in Pkgs :
    /\ installs[p] > 0 => dirExists[p]
    /\ pc[p] \in {"immediate", "link"} => dirExists[p]
    /\ LinkEvaluated(p) =>
         /\ dirExists[p]
         /\ npm[p] \in {"none", "ok"}
         /\ npm[p] = "none" <=> batch[p] = {}
         /\ \A b \in batch[p] : IsManifest(nodeModules[p][b[1]].files[ManifestFile], "installed")

\* C5 witness: a package links after its own install while the installer of
\* another package still runs
C5_Witness ==
  \E p, q \in Pkgs :
    /\ p # q
    /\ npm[p] = "ok" /\ LinkStarted(p) /\ pc[p] = "link"
    /\ npm[q] = "running"

\* C6: the installer is called at most once per package and only for a batch
\* that is not empty; when it fails the pipeline's result is its error and no
\* link of the package is evaluated.
C6_InstallerOnceAndFatal ==
  \A p \in Pkgs :
    /\ installs[p] <= 1
    /\ installs[p] = 1 <=> batch[p] # {}
    /\ installs[p] = 1 <=> npm[p] # "none"
    /\ pc[p] = "immediate" => installs[p] = 0 /\ externalPackages(p) = {}
    /\ npm[p] = "failed" =>
         /\ pc[p] = "done"
         /\ pipelineResult[p] = ErrNpm(p)
         /\ ~LinkEvaluated(p)

\* C6 witness: the installer failed for one package, and another package with
\* an empty batch went on to link without the installer
C6_Witness ==
  \E p, q \in Pkgs :
    /\ npm[p] = "failed" /\ pipelineResult[p] = ErrNpm(p)
    /\ installs[q] = 0 /\ LinkStarted(q)

\* d is declared by p at a range the version of d satisfies
Satisfied(p, d) ==
  /\ allDependencies[p][d] # Undefined
  /\ satisfies(version[d], allDependencies[p][d])

\* p's dependency directory holds a copy of d whose manifest's version
\* satisfies the range p declares
AlreadyInstalled(p, d) ==
  /\ nodeModules[p][d].exists
  /\ nodeModules[p][d].files[ManifestFile][1] = "manifest"
  /\ satisfies(nodeModules[p][d].files[ManifestFile][4], allDependencies[p][d])

\* the batch the claim describes
ClaimedBatch(p) ==
  {<<d, allDependencies[p][d]>> : d \in
     {d \in DepNames : /\ allDependencies[p][d] # Undefined
                       /\ ~(d \in Pkgs /\ Satisfied(p, d))
                       /\ ~AlreadyInstalled(p, d)}}

\* C7 as stated: the batch passed to the installer is exactly the declared
\* dependencies that are neither a sibling whose version satisfies the range
\* nor already in the dependency directory at a satisfying version.
C7_Original ==
  \A p \in Pkgs :
    /\ pc[p] = "install" => batch[p] = ClaimedBatch(p)
    /\ pc[p] = "immediate" => ClaimedBatch(p) = {}

\* C8 as stated: once p's link step has run, sibling d is linked into p's
\* dependency directory if and only if p declares d and d's version satisfies
\* the range; of every other pair linking leaves the target alone.
C8_Original ==
  \A p \in Pkgs : \A d \in Pkgs \ {p} :
    LinkEvaluated(p) =>
      /\ pair[p][d].st # "skip" <=> Satisfied(p, d)
      /\ ~Satisfied(p, d) =>
           \/ nodeModules[p][d] = before[p][d]
           \/ IsManifest(nodeModules[p][d].files[ManifestFile], "installed")

\* C9 as stated: after a successful run, for every bootstrapped package p and
\* every sibling d whose version satisfies the range p declares, p's dependency
\* directory holds an entry d whose manifest file is the generated one, at d's
\* version, whatever the order of the manifest's write and the links.
C9_Original ==
  result = execute(Ok) =>
    \A p \in Pkgs \ ignore : \A d \in Pkgs \ {p} :
      Satisfied(p, d) =>
        /\ nodeModules[p][d].exists
        /\ nodeModules[p][d].files[ManifestFile] = packageJsonFileContents(d, version[d])

\* C10 as stated: when d's version does not satisfy the range p declares,
\* whatever p's dependency directory held before, after p's pipeline no linked
\* entry d is left there and d@range was passed to the installer for p.
C10_Original ==
  \A p \in Pkgs : \A d \in Pkgs \ {p} :
    ( /\ pc[p] = "done" /\ pipelineResult[p] = Ok
      /\ allDependencies[p][d] # Undefined
      /\ ~satisfies(version[d], allDependencies[p][d]) ) =>
        /\ ~IsManifest(nodeModules[p][d].files[ManifestFile], "generated")
        /\ <<d, allDependencies[p][d]>> \in batch[p]

\* the siblings p declares at a range their version does not satisfy
Mismatched(p) ==
  {d \in Pkgs : /\ allDependencies[p][d] # Undefined
                /\ ~satisfies(version[d], allDependencies[p][d])}

\* C11 as stated: for every pipeline that was started and has called done,
\* failed or not, a warning naming the package, the sibling, the expected range
\* and the actual version was logged for every sibling it declares at a range
\* the sibling's version does not satisfy; and a pipeline fails only with the
\* error of one of its operations.
C11_Original ==
  \A p \in Pkgs :
    /\ pc[p] = "done" =>
         \A d \in Mismatched(p) : <<p, d, allDependencies[p][d], version[d]>> \in warnings
    /\ Failed(p) =>
         pipelineResult[p] \in {ErrMkdirp(p), ErrNpm(p)} \cup {ErrFs(p, d) : d \in Pkgs}

\* C12 as stated: when bootstrap has run twice in succession with no change to
\* the packages and both invocations succeeded, every package's dependency
\* directory is, after the second invocation, what it was after the first.
C12_Original ==
  (invocation = 2 /\ result = execute(Ok)) => nodeModules = afterFirst

\* createLinkedDependency was called for d in p's pipeline
LinkCalled(p, d) == pair[p][d].calls >= 1

\* C13: in one run no dependency name of a package is both linked from a sibling
\* and in the package's installer batch, and createLinkedDependency is called at
\* most once for a pair.
C13_LinkedOrInstalledOnce ==
  \A p \in Pkgs : \A d \in Pkgs :
    /\ pair[p][d].calls <= 1
    /\ ~(LinkCalled(p, d) /\ \E b \in batch[p] : b[1] = d)

\* C13 witness: a package whose batch held a sibling's name (its own, at a range
\* its version does not satisfy) has linked another sibling
C13_Witness ==
  \E p \in Pkgs : \E d, e \in Pkgs :
    /\ d # e
    /\ LinkCalled(p, d) /\ pairCb(pair[p][d]) = "ok" /\ pc[p] = "done"
    /\ \E b \in batch[p] : b[1] = e
    /\ IsManifest(nodeModules[p][e].files[ManifestFile], "installed")

\* p's dependency directory held, when the run began, a copy of n whose manifest
\* cannot be read
UnreadableCopy(p, n) == before[p][n].exists /\ before[p][n].files[ManifestFile] = Garbage

\* the negative result for an unreadable installed copy: n counts as not
\* installed and goes to the installer
UnreadableCopyIsNotInstalled ==
  \A p \in Pkgs : \A n \in DepNames :
    ( /\ pc[p] \notin {"idle", "mkdirp"}
      /\ pipelineResult[p] # ErrMkdirp(p)
      /\ allDependencies[p][n] # Undefined
      /\ UnreadableCopy(p, n) ) => <<n, allDependencies[p][n]>> \in batch[p]

\* C14 as stated: an unreadable manifest, of an installed copy or of a sibling
\* being linked, is swallowed where it is read and counts as a negative result;
\* no exception escapes, so every pipeline can still call done and tick.
C14_Original ==
  /\ UnreadableCopyIsNotInstalled
  /\ Alive

\* the patterns of d as its manifest declares them: lerna.files, then main once
DeclaredPatterns(d) ==
  Append(IF SecondHasFiles[d].has THEN SecondHasFiles[d].files ELSE <<>>, main)

\* every link of d that has read its patterns has read the declared ones
SamePatternsInEveryLink ==
  \A p \in Pkgs : \A d \in Pkgs :
    pair[p][d].st = "linking" => pair[p][d].patterns = DeclaredPatterns(d)

\* C15 as stated: during a run no link changes a package's loaded manifest
\* data, so every link of a sibling uses the same patterns, lerna.files
\* followed by main once, however many dependents link it.
C15_Original ==
  /\ lerna = SecondHasFiles
  /\ SamePatternsInEveryLink

\* a manifest of exactly the two fields name and version of sibling d
NameAndVersionOnly(d) == <<"manifest", "generated", d, version[d]>>

\* C16 as stated: the manifest a link generates for sibling d, as handed to
\* writeFile and as found in the linked entry, holds exactly the two fields name
\* and version, those of d, and no other field.
C16_Original ==
  \A p \in Pkgs : \A d \in Pkgs :
    /\ pair[p][d].st = "linking" => pair[p][d].contents = NameAndVersionOnly(d)
    /\ IsManifest(nodeModules[p][d].files[ManifestFile], "generated") =>
         nodeModules[p][d].files[ManifestFile] = NameAndVersionOnly(d)

\* C17 as stated: a package's pipeline never links the package itself: no
\* createLinkedDependency call has the package as its own dependency, and
\* linking puts no entry of the package's name under its own dependency
\* directory, whatever range it declares for its own name.
C17_Original ==
  \A p \in Pkgs :
    /\ ~LinkCalled(p, p)
    /\ pair[p][p].st \in {"none", "skip"}
    /\ ~IsManifest(nodeModules[p][p].files[ManifestFile], "generated")

\* what this run's link of d into p may have written at file f of the target
WrittenByLink(p, d, f) ==
  (IF f = ManifestFile THEN {pair[p][d].contents} ELSE {})
    \cup {fileContent(prefix, d, f) : i \in {i \in 1..Len(pair[p][d].files) :
                                              pair[p][d].files[i] = f /\ extname(f) = ".js"}}
    \cup {Symlink(d, f) : i \in {i \in 1..Len(pair[p][d].files) :
                                   pair[p][d].files[i] = f /\ extname(f) # ".js"}}

MatchedFile(p, d, i) == pair[p][d].files[i]

C20_Original ==
  \A d \in Pkgs : srcManifest[d] = SourceManifest(d)
====
